---- MODULE Spec2Model ----
(***************************************************************************)
(* moneyd-uplink-xrp (src/index.js): the XRP uplink of moneyd.             *)
(*                                                                         *)
(* Three specifications over one set of variables:                         *)
(*   Spec           one XrpUplink session (api, subscribed) used by        *)
(*                  several callers running info / cleanup / topup, with   *)
(*                  the ledger client, the submitter and the plugin as     *)
(*                  the environment;                                       *)
(*   SpecConfigure  one run of configure, with validateAddress;            *)
(*   SpecFormat     the pure formatting helpers.                           *)
(* An asynchronous function is cut at its awaits: one action is the code   *)
(* that runs between two awaits, and the settling of the awaited promise   *)
(* is chosen by the environment.                                           *)
(***************************************************************************)
EXTENDS FiniteSets, Integers, Sequences, TLC

\* ------------------------------------------------------------------ bounds
MaxChannels == 2
MaxOwnerCount == 2
MaxExp == 2
\* the longest amount that is formatted, in digits
MaxDigits == 7

\* ------------------------------------------------------------------ state
VARIABLES
    \* the XrpUplink session (constructor, src/index.js:312-317)
    api,          \* this.api: "null" or "client"
    subscribed,   \* this.subscribed
    \* the ledger client created by _rippleApi, and what was asked of it
    conn,         \* state of the client's connect(): "none", "pending", "ok", "failed"
    clients,      \* number of RippleAPI objects constructed
    connects,     \* number of connect() calls issued
    subCount,     \* number of 'subscribe' requests issued
    subDone,      \* a 'subscribe' request has completed successfully
    ledger,       \* the account's channels on the ledger (channel ids, in order)
    \* the submitter createSubmitter returns for the account
    queue,        \* submit calls accepted and not yet started, oldest first
    inflight,     \* callers whose submission is on its way to the ledger
    rejected,     \* per caller, the submissions the submitter rejected, with the cause
    fault,        \* per caller, the error the ledger client rejected an awaited call with
    \* each caller's position and locals
    pc, op, stage, reqOnOk, allChannels, channels, idx, out, result, amount, plugin,
    \* one run of configure (src/index.js:200-279)
    cfgPc,        \* "idle", "faucetWait", "delay", "validating", "returned", "exited", "rejected"
    testnet,      \* configure's flag
    res,          \* the answers: parent, name, secret, xrpServer, address
    askedSecret,  \* the secret the fields gave, before the faucet may replace it
    steps,        \* what configure has done, in order
    config,       \* the configuration configure returned, or NoConfig
    \* validateAddress (src/index.js:435-455)
    vPc,          \* "none", "connecting", "acctWait", "srvWait", "done"
    vCalls,       \* the (server, address) of each validateAddress call
    vIn,          \* what the ledger answered: account info, server info, lookup error
    vOut,         \* how validateAddress settled: NotSettled, Fulfilled or the error thrown
    outgoingDefault,  \* Plugin.OUTGOING_CHANNEL_DEFAULT_AMOUNT
    \* formatting helpers
    fmtIn,        \* the arguments and clock readings of the last call
    fmtOut        \* what it returned

sessVars == <<api, subscribed, conn, clients, connects, subCount, subDone, ledger,
              queue, inflight, rejected, fault,
              pc, op, stage, reqOnOk, allChannels, channels, idx, out, result, amount,
              plugin>>

cfgVars == <<cfgPc, testnet, res, askedSecret, steps, config,
             vPc, vCalls, vIn, vOut, outgoingDefault>>
fmtVars == <<fmtIn, fmtOut>>

vars == <<sessVars, cfgVars, fmtVars>>

\* the callers that use the session at the same time: a first and a second one
Callers == {"first", "second"}
ChannelIds == 1..MaxChannels
Amounts == {"10", "2500"}
\* err.message of a rejected submission
Causes == {"tecNO_PERMISSION", "temBAD_SIGNATURE"}

\* ---------------------------------------------------------------- helpers
Injective(s) == \A i, j \in 1..Len(s) : s[i] = s[j] => i = j
\* every channel list the ledger can answer with
ChannelLists == {s \in UNION {[1..n -> ChannelIds] : n \in 0..MaxChannels} : Injective(s)}
RemoveCh(s, c) == SelectSeq(s, LAMBDA x : x # c)
\* the elements of s at the (1-based) positions in I, in the order of s
RECURSIVE Pick(_, _, _)
Pick(s, I, k) ==
    IF k > Len(s) THEN <<>>
    ELSE (IF k \in I THEN <<s[k]>> ELSE <<>>) \o Pick(s, I, k + 1)

\* ------------------------------------------------------ session: Init
SessionStart(l) ==
    /\ api = "null" /\ subscribed = FALSE
    /\ conn = "none" /\ clients = 0 /\ connects = 0
    /\ subCount = 0 /\ subDone = FALSE
    /\ ledger = l
    /\ queue = <<>> /\ inflight = {}
    /\ rejected = [p \in Callers |-> <<>>]
    /\ fault = [p \in Callers |-> "none"]
    /\ pc = [p \in Callers |-> "idle"]
    /\ op = [p \in Callers |-> "none"]
    /\ stage = [p \in Callers |-> "none"]
    /\ reqOnOk = [p \in Callers |-> FALSE]
    /\ allChannels = [p \in Callers |-> <<>>]
    /\ channels = [p \in Callers |-> <<>>]
    /\ idx = [p \in Callers |-> 0]
    /\ out = [p \in Callers |-> <<>>]
    /\ result = [p \in Callers |-> "none"]
    /\ amount = [p \in Callers |-> "none"]
    /\ plugin = [p \in Callers |-> <<>>]


SessionInit == \E l \in ChannelLists : SessionStart(l)

\* what an action leaves alone unless it says otherwise
ClientUnchanged == UNCHANGED <<api, conn, clients, connects>>
SubUnchanged == UNCHANGED <<subscribed, subCount, subDone>>
SubmitterUnchanged == UNCHANGED <<queue, inflight, rejected>>
ListsUnchanged == UNCHANGED <<allChannels, channels, idx, out>>
PluginUnchanged == UNCHANGED <<amount, plugin>>

Goto(p, l) == pc' = [pc EXCEPT ![p] = l]
\* the operation's promise settles: fulfilled ("ok") or rejected with an error
Settle(p, r) == /\ pc' = [pc EXCEPT ![p] = "done"]
                /\ result' = [result EXCEPT ![p] = r]
\* a request is put on the client; remember whether the client was connected
Issue(p) == reqOnOk' = [reqOnOk EXCEPT ![p] = (conn = "ok")]

\* where the caller of _rippleApi goes on once it holds the client
AfterApi(st) == CASE st = "list" -> "list"
                  [] st = "print" -> "acct"
                  [] st = "submitter" -> "sub"

\* (mutant: this.api is not consulted, every call creates and connects a client)
_rippleApiNoMemo(p, st) ==
    /\ stage' = [stage EXCEPT ![p] = st]
    /\ api' = "client"
    /\ clients' = clients + 1
    /\ conn' = "pending"
    /\ connects' = connects + 1
    /\ Goto(p, "connecting")

\* _rippleApi up to its await: create and connect the client if there is none,
\* else hand out this.api as it is
_rippleApi(p, st) ==
    /\ stage' = [stage EXCEPT ![p] = st]
    /\ IF api = "null"
       THEN /\ api' = "client"
            /\ clients' = clients + 1
            /\ conn' = "pending"
            /\ connects' = connects + 1
            /\ Goto(p, "connecting")
       ELSE /\ Goto(p, AfterApi(st))
            /\ ClientUnchanged

\* -------------------------------------------------- commands (handlers)
\* handler: makeUplink(config).printChannels() / cleanupChannels(), which
\* both start with _listChannels(), which starts with _rippleApi()
Invoke(p, o) ==
    /\ pc[p] = "idle"
    /\ o \in {"info", "cleanup"}
    /\ op' = [op EXCEPT ![p] = o]
    /\ result' = [result EXCEPT ![p] = "running"]
    /\ _rippleApi(p, "list")
    /\ SubUnchanged /\ SubmitterUnchanged /\ ListsUnchanged /\ PluginUnchanged
    /\ UNCHANGED <<ledger, reqOnOk>>
    /\ UNCHANGED <<fault, cfgVars, fmtVars>>

\* await this.api.connect() is fulfilled: _rippleApi returns this.api
ConnectOk(p) ==
    /\ pc[p] = "connecting"
    /\ conn' = "ok"
    /\ Goto(p, AfterApi(stage[p]))
    /\ SubUnchanged /\ SubmitterUnchanged /\ ListsUnchanged /\ PluginUnchanged
    /\ UNCHANGED <<api, clients, connects, ledger, op, stage, reqOnOk, result>>
    /\ UNCHANGED <<fault, cfgVars, fmtVars>>

\* the error a rejected call of the ledger client carries
GatewayError(call) == "error: " \o call
\* the call a caller awaits
AwaitedCall(l) == CASE l = "connecting" -> "connect"
                    [] l = "listWait" -> "account_channels"
                    [] l = "acctWait" -> "getAccountInfo"
                    [] l = "srvWait" -> "getServerInfo"
                    [] l = "subWait" -> "subscribe"
GatewayErrors == {GatewayError(AwaitedCall(l)) :
                    l \in {"connecting", "listWait", "acctWait", "srvWait", "subWait"}}

\* await this.api.connect() is rejected: the operation rejects, this.api stays set
ConnectFail(p) ==
    /\ pc[p] = "connecting"
    /\ conn' = "failed"
    /\ fault' = [fault EXCEPT ![p] = GatewayError("connect")]
    /\ Settle(p, GatewayError("connect"))
    /\ SubUnchanged /\ SubmitterUnchanged /\ ListsUnchanged /\ PluginUnchanged
    /\ UNCHANGED <<api, clients, connects, ledger, op, stage, reqOnOk>>
    /\ UNCHANGED <<cfgVars, fmtVars>>

\* (mutant: the rejection is caught and the operation is fulfilled)
RequestFailSwallowed(p) ==
    /\ pc[p] \in {"listWait", "acctWait", "srvWait", "subWait"}
    /\ fault' = [fault EXCEPT ![p] = GatewayError(AwaitedCall(pc[p]))]
    /\ Settle(p, "ok")
    /\ ClientUnchanged /\ SubUnchanged /\ SubmitterUnchanged /\ ListsUnchanged
    /\ PluginUnchanged
    /\ UNCHANGED <<ledger, op, stage, reqOnOk>>
    /\ UNCHANGED <<cfgVars, fmtVars>>

\* a request the caller awaits is rejected (always possible; certain when the
\* request was put on a client that was not connected): the operation rejects
\* with the request's error
RequestFail(p) ==
    /\ pc[p] \in {"listWait", "acctWait", "srvWait", "subWait"}
    /\ fault' = [fault EXCEPT ![p] = GatewayError(AwaitedCall(pc[p]))]
    /\ Settle(p, GatewayError(AwaitedCall(pc[p])))
    /\ ClientUnchanged /\ SubUnchanged /\ SubmitterUnchanged /\ ListsUnchanged
    /\ PluginUnchanged
    /\ UNCHANGED <<ledger, op, stage, reqOnOk>>
    /\ UNCHANGED <<cfgVars, fmtVars>>

\* _listChannels after its await of _rippleApi: request account_channels
_listChannels(p) ==
    /\ pc[p] = "list"
    /\ Issue(p)
    /\ Goto(p, "listWait")
    /\ ClientUnchanged /\ SubUnchanged /\ SubmitterUnchanged /\ ListsUnchanged
    /\ PluginUnchanged
    /\ UNCHANGED <<ledger, op, stage, result>>
    /\ UNCHANGED <<fault, cfgVars, fmtVars>>

\* (mutant: the list another call of the session has fetched is used again)
ListOkCached(p) ==
    /\ pc[p] = "listWait" /\ reqOnOk[p]
    /\ allChannels' = [allChannels EXCEPT ![p] =
                         IF \E q \in Callers \ {p} : stage[q] \in {"print", "submitter"}
                         THEN allChannels[CHOOSE q \in Callers \ {p} :
                                            stage[q] \in {"print", "submitter"}]
                         ELSE ledger]
    /\ _rippleApi(p, "print")
    /\ SubUnchanged /\ SubmitterUnchanged /\ PluginUnchanged
    /\ UNCHANGED <<ledger, op, reqOnOk, channels, idx, out, result>>
    /\ UNCHANGED <<fault, cfgVars, fmtVars>>

\* account_channels answers: res.channels is returned and _printChannels(channels)
\* is entered, which starts with _rippleApi()
ListOk(p) ==
    /\ pc[p] = "listWait" /\ reqOnOk[p]
    /\ allChannels' = [allChannels EXCEPT ![p] = ledger]
    /\ _rippleApi(p, "print")
    /\ SubUnchanged /\ SubmitterUnchanged /\ PluginUnchanged
    /\ UNCHANGED <<ledger, op, reqOnOk, channels, idx, out, result>>
    /\ UNCHANGED <<fault, cfgVars, fmtVars>>

\* _printChannels after its await of _rippleApi: getAccountInfo(address)
_printChannels(p) ==
    /\ pc[p] = "acct"
    /\ Issue(p)
    /\ Goto(p, "acctWait")
    /\ ClientUnchanged /\ SubUnchanged /\ SubmitterUnchanged /\ ListsUnchanged
    /\ PluginUnchanged
    /\ UNCHANGED <<ledger, op, stage, result>>
    /\ UNCHANGED <<fault, cfgVars, fmtVars>>

\* getAccountInfo answers: getServerInfo() is requested
AccountInfoOk(p) ==
    /\ pc[p] = "acctWait" /\ reqOnOk[p]
    /\ Issue(p)
    /\ Goto(p, "srvWait")
    /\ ClientUnchanged /\ SubUnchanged /\ SubmitterUnchanged /\ ListsUnchanged
    /\ PluginUnchanged
    /\ UNCHANGED <<ledger, op, stage, result>>
    /\ UNCHANGED <<fault, cfgVars, fmtVars>>

\* (mutant: cleanupChannels does not return on an empty list)
ServerInfoOkNoReturn(p) ==
    /\ pc[p] = "srvWait" /\ reqOnOk[p]
    /\ IF op[p] = "info"
       THEN Settle(p, "ok")
       ELSE Goto(p, "prompt") /\ UNCHANGED result
    /\ ClientUnchanged /\ SubUnchanged /\ SubmitterUnchanged /\ ListsUnchanged
    /\ PluginUnchanged
    /\ UNCHANGED <<ledger, op, stage, reqOnOk>>
    /\ UNCHANGED <<fault, cfgVars, fmtVars>>

\* getServerInfo answers: the balances and the table are printed. printChannels
\* is done; cleanupChannels returns when there is no channel, else it prompts
ServerInfoOk(p) ==
    /\ pc[p] = "srvWait" /\ reqOnOk[p]
    /\ IF op[p] = "info" \/ Len(allChannels[p]) = 0
       THEN Settle(p, "ok")
       ELSE Goto(p, "prompt") /\ UNCHANGED result
    /\ ClientUnchanged /\ SubUnchanged /\ SubmitterUnchanged /\ ListsUnchanged
    /\ PluginUnchanged
    /\ UNCHANGED <<ledger, op, stage, reqOnOk>>
    /\ UNCHANGED <<fault, cfgVars, fmtVars>>

\* inquirer's checkbox answers with the marked indices I (in list order):
\* channels = result.marked.map(index => allChannels[+index]); then _submitter()
\* is entered, which starts with _rippleApi()
Prompt(p, I) ==
    /\ pc[p] = "prompt"
    /\ I \subseteq 1..Len(allChannels[p])
    /\ channels' = [channels EXCEPT ![p] = Pick(allChannels[p], I, 1)]
    /\ _rippleApi(p, "submitter")
    /\ SubUnchanged /\ SubmitterUnchanged /\ PluginUnchanged
    /\ UNCHANGED <<ledger, op, reqOnOk, allChannels, idx, out, result>>
    /\ UNCHANGED <<fault, cfgVars, fmtVars>>

\* (mutant: the flag is never set)
_submitterNoFlag(p) ==
    /\ pc[p] = "sub"
    /\ IF ~subscribed
       THEN /\ subCount' = subCount + 1
            /\ Issue(p)
            /\ Goto(p, "subWait")
            /\ UNCHANGED <<subscribed, subDone>>
       ELSE /\ Goto(p, "loop")
            /\ SubUnchanged
            /\ UNCHANGED reqOnOk
    /\ ClientUnchanged /\ SubmitterUnchanged /\ ListsUnchanged /\ PluginUnchanged
    /\ UNCHANGED <<ledger, op, stage, result>>
    /\ UNCHANGED <<fault, cfgVars, fmtVars>>

\* _submitter after its await of _rippleApi: subscribe unless this.subscribed,
\* setting the flag before the request is awaited; else createSubmitter(...)
_submitter(p) ==
    /\ pc[p] = "sub"
    /\ IF ~subscribed
       THEN /\ subscribed' = TRUE
            /\ subCount' = subCount + 1
            /\ Issue(p)
            /\ Goto(p, "subWait")
            /\ UNCHANGED subDone
       ELSE /\ Goto(p, "loop")
            /\ SubUnchanged
            /\ UNCHANGED reqOnOk
    /\ ClientUnchanged /\ SubmitterUnchanged /\ ListsUnchanged /\ PluginUnchanged
    /\ UNCHANGED <<ledger, op, stage, result>>
    /\ UNCHANGED <<fault, cfgVars, fmtVars>>

\* the subscribe request answers: createSubmitter(api, address, secret)
SubscribeOk(p) ==
    /\ pc[p] = "subWait" /\ reqOnOk[p]
    /\ subDone' = TRUE
    /\ Goto(p, "loop")
    /\ ClientUnchanged /\ SubmitterUnchanged /\ ListsUnchanged /\ PluginUnchanged
    /\ UNCHANGED <<subscribed, subCount, ledger, op, stage, reqOnOk, result>>
    /\ UNCHANGED <<fault, cfgVars, fmtVars>>

\* (mutant: the loop does not await the submission before it goes on)
cleanupChannelsNoAwait(p) ==
    /\ pc[p] = "loop"
    /\ IF idx[p] = Len(channels[p])
       THEN Settle(p, "ok") /\ UNCHANGED <<out, queue, idx>>
       ELSE /\ out' = [out EXCEPT ![p] =
                         Append(@, [t |-> "submit", channel |-> channels[p][idx[p] + 1],
                                    close |-> TRUE])]
            /\ queue' = Append(queue, p)
            /\ idx' = [idx EXCEPT ![p] = @ + 1]
            /\ UNCHANGED <<pc, result>>
    /\ ClientUnchanged /\ SubUnchanged /\ PluginUnchanged
    /\ UNCHANGED <<inflight, rejected, ledger, op, stage, reqOnOk, allChannels, channels>>
    /\ UNCHANGED <<fault, cfgVars, fmtVars>>

\* cleanupChannels, the head of its loop: for (const channel of channels) ...
\* await submitter.submit('preparePaymentChannelClaim', {channel, close: true});
\* after the last channel the operation is fulfilled
cleanupChannels(p) ==
    /\ pc[p] = "loop"
    /\ IF idx[p] = Len(channels[p])
       THEN Settle(p, "ok") /\ UNCHANGED <<out, queue>>
       ELSE /\ out' = [out EXCEPT ![p] =
                         Append(@, [t |-> "submit", channel |-> channels[p][idx[p] + 1],
                                    close |-> TRUE])]
            /\ queue' = Append(queue, p)
            /\ Goto(p, "submitWait")
            /\ UNCHANGED result
    /\ ClientUnchanged /\ SubUnchanged /\ PluginUnchanged
    /\ UNCHANGED <<inflight, rejected, ledger, op, stage, reqOnOk, allChannels, channels,
                   idx>>
    /\ UNCHANGED <<fault, cfgVars, fmtVars>>

\* (mutant: the submitter starts a waiting submission at once)
SubmitterStartUnserialized ==
    /\ queue # <<>>
    /\ inflight' = inflight \cup {Head(queue)}
    /\ queue' = Tail(queue)
    /\ ClientUnchanged /\ SubUnchanged /\ ListsUnchanged /\ PluginUnchanged
    /\ UNCHANGED <<rejected, ledger, pc, op, stage, reqOnOk, result>>
    /\ UNCHANGED <<fault, cfgVars, fmtVars>>

\* the account's submitter (createSubmitter's, of ilp-plugin-xrp-paychan-shared)
\* starts its oldest waiting submission once none is in flight
SubmitterStart ==
    /\ queue # <<>>
    /\ inflight = {}
    /\ inflight' = {Head(queue)}
    /\ queue' = Tail(queue)
    /\ ClientUnchanged /\ SubUnchanged /\ ListsUnchanged /\ PluginUnchanged
    /\ UNCHANGED <<rejected, ledger, pc, op, stage, reqOnOk, result>>
    /\ UNCHANGED <<fault, cfgVars, fmtVars>>

\* the submission is validated: the channel is closed on the ledger, and the
\* loop goes on to the next channel
SubmitOk(p) ==
    /\ pc[p] = "submitWait" /\ p \in inflight
    /\ inflight' = inflight \ {p}
    /\ ledger' = RemoveCh(ledger, channels[p][idx[p] + 1])
    /\ idx' = [idx EXCEPT ![p] = @ + 1]
    /\ Goto(p, "loop")
    /\ ClientUnchanged /\ SubUnchanged /\ PluginUnchanged
    /\ UNCHANGED <<queue, rejected, op, stage, reqOnOk, allChannels, channels, out, result>>
    /\ UNCHANGED <<fault, cfgVars, fmtVars>>

\* the submitter rejects the submission of caller p with an error whose message
\* is cause
Reject(p, cause) ==
    /\ pc[p] = "submitWait" /\ p \in inflight
    /\ inflight' = inflight \ {p}
    /\ rejected' = [rejected EXCEPT ![p] =
                      Append(@, [channel |-> channels[p][idx[p] + 1], message |-> cause])]

\* (mutant: no try/catch, the rejection leaves the loop and rejects the operation)
SubmitFailAborts(p, cause) ==
    /\ Reject(p, cause)
    /\ Settle(p, cause)
    /\ ClientUnchanged /\ SubUnchanged /\ PluginUnchanged /\ ListsUnchanged
    /\ UNCHANGED <<queue, ledger, op, stage, reqOnOk>>
    /\ UNCHANGED <<fault, cfgVars, fmtVars>>

\* (mutant: the catch block prints the channel and not err.message)
SubmitFailNoMessage(p, cause) ==
    /\ Reject(p, cause)
    /\ out' = [out EXCEPT ![p] =
                 Append(@, [t |-> "warning", channel |-> channels[p][idx[p] + 1],
                            message |-> "undefined"])]
    /\ idx' = [idx EXCEPT ![p] = @ + 1]
    /\ Goto(p, "loop")
    /\ ClientUnchanged /\ SubUnchanged /\ PluginUnchanged
    /\ UNCHANGED <<queue, ledger, op, stage, reqOnOk, allChannels, channels, result>>
    /\ UNCHANGED <<fault, cfgVars, fmtVars>>

\* the submission is rejected with err: the catch block prints
\* 'Warning for channel ' + channelId + ':', err.message and the loop goes on
SubmitFail(p, cause) ==
    /\ Reject(p, cause)
    /\ out' = [out EXCEPT ![p] =
                 Append(@, [t |-> "warning", channel |-> channels[p][idx[p] + 1],
                            message |-> cause])]
    /\ idx' = [idx EXCEPT ![p] = @ + 1]
    /\ Goto(p, "loop")
    /\ ClientUnchanged /\ SubUnchanged /\ PluginUnchanged
    /\ UNCHANGED <<queue, ledger, op, stage, reqOnOk, allChannels, channels, result>>
    /\ UNCHANGED <<fault, cfgVars, fmtVars>>

\* an entry of the plugin's log: a call made on it, or how it settled one
PluginEvent(c, a) == [call |-> c, arg |-> a]

\* (mutant: connect is not awaited, sendMoney is called at once)
topupNoAwait(p, a) ==
    /\ pc[p] = "idle"
    /\ op' = [op EXCEPT ![p] = "topup"]
    /\ result' = [result EXCEPT ![p] = "running"]
    /\ amount' = [amount EXCEPT ![p] = a]
    /\ plugin' = [plugin EXCEPT ![p] = <<PluginEvent("connect", "none"),
                                         PluginEvent("sendMoney", a)>>]
    /\ Goto(p, "plugSend")
    /\ ClientUnchanged /\ SubUnchanged /\ SubmitterUnchanged /\ ListsUnchanged
    /\ UNCHANGED <<ledger, stage, reqOnOk>>
    /\ UNCHANGED <<fault, cfgVars, fmtVars>>

\* handler: makeUplink(config).topup(amount): new Plugin(pluginOpts), connect()
topup(p, a) ==
    /\ pc[p] = "idle"
    /\ op' = [op EXCEPT ![p] = "topup"]
    /\ result' = [result EXCEPT ![p] = "running"]
    /\ amount' = [amount EXCEPT ![p] = a]
    /\ plugin' = [plugin EXCEPT ![p] = <<PluginEvent("connect", "none")>>]
    /\ Goto(p, "plugConnect")
    /\ ClientUnchanged /\ SubUnchanged /\ SubmitterUnchanged /\ ListsUnchanged
    /\ UNCHANGED <<ledger, stage, reqOnOk>>
    /\ UNCHANGED <<fault, cfgVars, fmtVars>>

\* plugin.connect() is fulfilled: plugin.sendMoney(amount)
PluginConnectOk(p) ==
    /\ pc[p] = "plugConnect"
    /\ plugin' = [plugin EXCEPT ![p] = @ \o <<PluginEvent("connected", "none"),
                                              PluginEvent("sendMoney", amount[p])>>]
    /\ Goto(p, "plugSend")
    /\ ClientUnchanged /\ SubUnchanged /\ SubmitterUnchanged /\ ListsUnchanged
    /\ UNCHANGED <<ledger, op, stage, reqOnOk, result, amount>>
    /\ UNCHANGED <<fault, cfgVars, fmtVars>>

\* plugin.sendMoney(amount) is fulfilled: topup is done
SendMoneyOk(p) ==
    /\ pc[p] = "plugSend"
    /\ plugin' = [plugin EXCEPT ![p] = Append(@, PluginEvent("sent", "none"))]
    /\ Settle(p, "ok")
    /\ ClientUnchanged /\ SubUnchanged /\ SubmitterUnchanged /\ ListsUnchanged
    /\ UNCHANGED amount
    /\ UNCHANGED <<ledger, op, stage, reqOnOk>>
    /\ UNCHANGED <<fault, cfgVars, fmtVars>>

\* plugin.connect() or plugin.sendMoney() is rejected: topup rejects
PluginFail(p) ==
    /\ pc[p] \in {"plugConnect", "plugSend"}
    /\ plugin' = [plugin EXCEPT ![p] =
                    Append(@, PluginEvent(IF pc[p] = "plugConnect" THEN "connectRejected"
                                          ELSE "sendMoneyRejected", "none"))]
    /\ Settle(p, "pluginError")
    /\ ClientUnchanged /\ SubUnchanged /\ SubmitterUnchanged /\ ListsUnchanged
    /\ UNCHANGED amount
    /\ UNCHANGED <<ledger, op, stage, reqOnOk>>
    /\ UNCHANGED <<fault, cfgVars, fmtVars>>

SessionNext ==
    \/ \E p \in Callers, o \in {"info", "cleanup"} : Invoke(p, o)
    \/ \E p \in Callers : ConnectOk(p)
    \/ \E p \in Callers : ConnectFail(p)
    \/ \E p \in Callers : RequestFail(p)
    \/ \E p \in Callers : _listChannels(p)
    \/ \E p \in Callers : ListOk(p)
    \/ \E p \in Callers : _printChannels(p)
    \/ \E p \in Callers : AccountInfoOk(p)
    \/ \E p \in Callers : ServerInfoOk(p)
    \/ \E p \in Callers : \E I \in SUBSET (1..MaxChannels) : Prompt(p, I)
    \/ \E p \in Callers : _submitter(p)
    \/ \E p \in Callers : SubscribeOk(p)
    \/ \E p \in Callers : cleanupChannels(p)
    \/ SubmitterStart
    \/ \E p \in Callers : SubmitOk(p)
    \/ \E p \in Callers, c \in Causes : SubmitFail(p, c)
    \/ \E p \in Callers, a \in Amounts : topup(p, a)
    \/ \E p \in Callers : PluginConnectOk(p)
    \/ \E p \in Callers : SendMoneyOk(p)
    \/ \E p \in Callers : PluginFail(p)


\* ============================================================== configure
\* 0x386D4380, the seconds between the Unix epoch and the ledger's epoch
RippleEpoch == 946684800
parentBtpHmacKey == "parent_btp_uri"
Undefined == "undefined"

\* connector_list.json and rippled_list.json, by network
connectorList(tn) == IF tn THEN {"test.connector.example"} ELSE {"live.connector.example"}
rippledList(tn) == IF tn THEN {"wss://test.rippled.example"} ELSE {"wss://live.rippled.example"}
\* base64url(crypto.randomBytes(32))
RandomNames == {"c2Vzc2lvbg"}
\* what the user may type at a prompt
ParentAnswers == {"btp.example"}
NameAnswers == {"", "main"}
SecretAnswers == {"", "sUserSeed", "not a seed"}
ServerAnswers == {"wss://rippled.example"}
\* isValidSeed (ripple-address-codec)
isValidSeed(secret) == secret \in {"sUserSeed"}
\* the accounts the testnet faucet hands out
FaucetAccounts == {[address |-> "rFaucet1", secret |-> "sFaucet1"],
                   [address |-> "rFaucet2", secret |-> "sFaucet2"]}
\* deriveAddress(deriveKeypair(secret).publicKey) (ripple-keypairs)
deriveAddress(secret) == "r(" \o secret \o ")"

\* what the ledger may answer to validateAddress
ReserveBases == {10, 20}
ReserveIncrements == {2, 5}
ChannelAmounts == {3, 10}
SetMax(S) == CHOOSE x \in S : \A y \in S : y <= x
OwnerCounts == 0..MaxOwnerCount
Balances == 0..(SetMax(ReserveBases) + SetMax(ReserveIncrements) * (MaxOwnerCount + 1)
                  + SetMax(ChannelAmounts) + 2)
NoError == [id |-> "none", message |-> ""]
\* errors of the ledger client: account lookup, and connect or server info
LookupErrors == {[id |-> "ledger", message |-> "actNotFound"],
                 [id |-> "ledger", message |-> "actMalformed"],
                 [id |-> "ledger", message |-> "timeout"]}
TransportError == [id |-> "ledger", message |-> "disconnected"]
\* new Error(message), thrown by validateAddress
NewError(msg) == [id |-> "validateAddress", message |-> msg]

CfgStart(amt) ==
    /\ cfgPc = "idle" /\ testnet = FALSE
    /\ res = [parent |-> Undefined, name |-> Undefined, secret |-> Undefined,
              xrpServer |-> Undefined, address |-> Undefined]
    /\ askedSecret = Undefined
    /\ steps = <<>> /\ config = {}
    /\ vPc = "none" /\ vCalls = <<>>
    /\ vIn = [acctKnown |-> FALSE, ownerCount |-> 0, xrpBalance |-> 0, lookupErr |-> NoError,
              srvAsked |-> FALSE, srvKnown |-> FALSE, reserveBaseXRP |-> 0,
              reserveIncrementXRP |-> 0]
    /\ vOut = [kind |-> "none", err |-> NoError]
    /\ outgoingDefault = amt

CfgInit == \E amt \in ChannelAmounts : CfgStart(amt)

\* hmac(key, message): HMAC-SHA256, kept symbolic
hmac(key, message) == "hmac(" \o key \o "," \o message \o ")"
\* Buffer.toString('hex'), kept symbolic
toHex(buf) == "hex:" \o buf

\* res.name || ''
btpName == IF res.name \in {Undefined, ""} THEN "" ELSE res.name
\* (mutant: the secret is derived from the secret as the fields gave it, before
\* the faucet's account is known)
btpSecretBeforeFaucet ==
    toHex(hmac(hmac(parentBtpHmacKey, res.parent \o btpName), askedSecret))
\* hmac(hmac(parentBtpHmacKey, res.parent + btpName), res.secret).toString('hex')
btpSecret == toHex(hmac(hmac(parentBtpHmacKey, res.parent \o btpName), res.secret))
btpServer == "btp+wss://" \o btpName \o ":" \o btpSecret \o "@" \o res.parent

\* the loop over the fields: a field is asked when advanced is set or it has no
\* default, else it takes its default
Field(advanced, default, answer) ==
    IF advanced \/ default = Undefined THEN answer ELSE default
\* the secret prompt's validate
SecretValid(tn, secret) == (tn /\ secret = "") \/ isValidSeed(secret)

\* (mutant: every testnet run takes the faucet)
UseFaucetOnTestnet(tn, secret) == tn
\* testnet && !res.secret
UseFaucet(tn, secret) == tn /\ secret \in {"", Undefined}

\* the statements after the if/else: btpName, btpSecret, btpServer, return {...}
ReturnConfig ==
    /\ cfgPc' = "returned"
    /\ steps' = steps \o <<"derive", "return">>
    /\ config' = {[relation |-> "parent", assetCode |-> "XRP", assetScale |-> 6,
                   sendRoutes |-> FALSE, receiveRoutes |-> FALSE,
                   options |-> [server |-> btpServer, secret |-> res.secret,
                                address |-> res.address, xrpServer |-> res.xrpServer]]}

\* (mutant: the handler prints the error and configure goes on)
OnValidateErrorNoExit(err) == ReturnConfig
\* .catch((err) => { console.error(...); process.exit(1) })
OnValidateError(err) ==
    /\ cfgPc' = "exited"
    /\ steps' = Append(steps, "exit")
    /\ UNCHANGED config

\* validateAddress throws err
ValidateThrows(err) ==
    /\ vPc' = "done"
    /\ vOut' = [kind |-> "error", err |-> err]
    /\ OnValidateError(err)

\* configure up to its first await after the fields: the faucet request, or
\* deriveAddress and validateAddress up to api.connect()
configure(tn, advanced, answer) ==
    /\ cfgPc = "idle"
    /\ SecretValid(tn, answer.secret)
    /\ \E defaultParent \in connectorList(tn), defaultRippled \in rippledList(tn),
          randomName \in RandomNames :
         LET parent == Field(advanced, defaultParent, answer.parent)
             name == Field(advanced, randomName, answer.name)
             secret == Field(advanced, IF tn THEN "" ELSE Undefined, answer.secret)
             xrpServer == Field(advanced, defaultRippled, answer.xrpServer)
         IN /\ testnet' = tn
            /\ askedSecret' = secret
            /\ IF UseFaucet(tn, secret)
               THEN /\ res' = [parent |-> parent, name |-> name, secret |-> secret,
                               xrpServer |-> xrpServer, address |-> Undefined]
                    /\ cfgPc' = "faucetWait"
                    /\ steps' = <<"faucet">>
                    /\ UNCHANGED <<vPc, vCalls>>
               ELSE /\ res' = [parent |-> parent, name |-> name, secret |-> secret,
                               xrpServer |-> xrpServer, address |-> deriveAddress(secret)]
                    /\ cfgPc' = "validating"
                    /\ steps' = <<"validate">>
                    /\ vPc' = "connecting"
                    /\ vCalls' = Append(vCalls, [server |-> xrpServer,
                                                 address |-> deriveAddress(secret)])
    /\ UNCHANGED <<config, vIn, vOut, outgoingDefault>>
    /\ UNCHANGED <<sessVars, fmtVars>>

\* the faucet answers: res.address and res.secret are the new account's, and
\* configure waits for the funding
FaucetOk(account) ==
    /\ cfgPc = "faucetWait"
    /\ res' = [res EXCEPT !.address = account.address, !.secret = account.secret]
    /\ cfgPc' = "delay"
    /\ steps' = Append(steps, "delay")
    /\ UNCHANGED <<testnet, askedSecret, config, vPc, vCalls, vIn, vOut, outgoingDefault>>
    /\ UNCHANGED <<sessVars, fmtVars>>

\* the faucet request fails: configure rejects
FaucetFail ==
    /\ cfgPc = "faucetWait"
    /\ cfgPc' = "rejected"
    /\ UNCHANGED <<testnet, res, askedSecret, steps, config, vPc, vCalls, vIn, vOut,
                   outgoingDefault>>
    /\ UNCHANGED <<sessVars, fmtVars>>

\* the 10 s are over: the configuration is derived and returned
DelayDone ==
    /\ cfgPc = "delay"
    /\ ReturnConfig
    /\ UNCHANGED <<testnet, res, askedSecret, vPc, vCalls, vIn, vOut, outgoingDefault>>
    /\ UNCHANGED <<sessVars, fmtVars>>

\* ------------------------------------------------------- validateAddress
\* api.connect() is fulfilled: getAccountInfo(address) is requested
ValidateConnectOk ==
    /\ vPc = "connecting"
    /\ vPc' = "acctWait"
    /\ UNCHANGED <<cfgPc, testnet, res, askedSecret, steps, config, vCalls, vIn, vOut,
                   outgoingDefault>>
    /\ UNCHANGED <<sessVars, fmtVars>>

\* api.connect() or getServerInfo() is rejected: validateAddress throws the error
ValidateTransportFail ==
    /\ vPc \in {"connecting", "srvWait"}
    /\ ValidateThrows(TransportError)
    /\ UNCHANGED <<testnet, res, askedSecret, vCalls, vIn, outgoingDefault>>
    /\ UNCHANGED <<sessVars, fmtVars>>

\* (mutant: the lookup error is thrown as it came)
LookupThrownRaw(err, address, server) == err
\* the catch of getAccountInfo: actNotFound becomes a new error naming the address
\* and the server, any other error is thrown again
LookupThrown(err, address, server) ==
    IF err.message # "actNotFound" THEN err
    ELSE NewError("Address \"" \o address \o "\" does not exist on " \o server)

\* getAccountInfo is rejected with err
ValidateAccountErr(err) ==
    /\ vPc = "acctWait"
    /\ vIn' = [vIn EXCEPT !.lookupErr = err]
    /\ ValidateThrows(LookupThrown(err, res.address, res.xrpServer))
    /\ UNCHANGED <<testnet, res, askedSecret, vCalls, outgoingDefault>>
    /\ UNCHANGED <<sessVars, fmtVars>>

\* getAccountInfo answers: getServerInfo() is requested
ValidateAccountOk(owner, balance) ==
    /\ vPc = "acctWait"
    /\ vIn' = [vIn EXCEPT !.acctKnown = TRUE, !.ownerCount = owner, !.xrpBalance = balance,
                          !.srvAsked = TRUE]
    /\ vPc' = "srvWait"
    /\ UNCHANGED <<cfgPc, testnet, res, askedSecret, steps, config, vCalls, vOut,
                   outgoingDefault>>
    /\ UNCHANGED <<sessVars, fmtVars>>

\* (mutant: the margin for the channel create fee is left out)
minBalanceNoFee(reserveBaseXRP, reserveIncrementXRP, ownerCount, amt) ==
    reserveBaseXRP + reserveIncrementXRP * ownerCount + reserveIncrementXRP + amt
\* minBalance: the current reserve, the channel's reserve, the channel's amount, 1
minBalance(reserveBaseXRP, reserveIncrementXRP, ownerCount, amt) ==
    reserveBaseXRP + reserveIncrementXRP * ownerCount + reserveIncrementXRP + amt + 1

\* getServerInfo answers: the balance is compared with minBalance
ValidateServerOk(reserveBaseXRP, reserveIncrementXRP) ==
    /\ vPc = "srvWait"
    /\ vIn' = [vIn EXCEPT !.srvKnown = TRUE, !.reserveBaseXRP = reserveBaseXRP,
                          !.reserveIncrementXRP = reserveIncrementXRP]
    /\ LET min == minBalance(reserveBaseXRP, reserveIncrementXRP, vIn.ownerCount,
                             outgoingDefault)
           currentBalance == vIn.xrpBalance
       IN IF currentBalance < min
          THEN ValidateThrows(NewError("account balance is too low (must be at least "
                                         \o ToString(min) \o ")"))
          ELSE /\ vPc' = "done"
               /\ vOut' = [kind |-> "ok", err |-> NoError]
               /\ ReturnConfig
    /\ UNCHANGED <<testnet, res, askedSecret, vCalls, outgoingDefault>>
    /\ UNCHANGED <<sessVars, fmtVars>>

ConfigureNext ==
    \/ \E tn \in BOOLEAN, advanced \in BOOLEAN,
          answer \in [parent : ParentAnswers, name : NameAnswers,
                      secret : SecretAnswers, xrpServer : ServerAnswers] :
         configure(tn, advanced, answer)
    \/ \E account \in FaucetAccounts : FaucetOk(account)
    \/ FaucetFail
    \/ DelayDone
    \/ ValidateConnectOk
    \/ ValidateTransportFail
    \/ \E err \in LookupErrors : ValidateAccountErr(err)
    \/ \E owner \in OwnerCounts, balance \in Balances : ValidateAccountOk(owner, balance)
    \/ \E b \in ReserveBases, i \in ReserveIncrements : ValidateServerOk(b, i)

\* ================================================================ formatting
\* the values c.expiration may have
Expirations == {[t |-> "undefined", v |-> 0], [t |-> "null", v |-> 0]}
                 \cup {[t |-> "number", v |-> n] : n \in 0..MaxExp}
\* a time in milliseconds, as whole seconds and the milliseconds beyond them
Millis(sec, msec) == [s |-> sec, ms |-> msec]
\* the values Date.now() may return
ClockReadings == {Millis(RippleEpoch + k, m) : k \in 0..(MaxExp + 1), m \in {0, 1, 999}}
Leq(a, b) == a.s < b.s \/ (a.s = b.s /\ a.ms <= b.ms)
Minus(a, b) == (a.s - b.s) * 1000 + (a.ms - b.ms)
\* !exp
Falsy(exp) == exp.t \in {"undefined", "null"} \/ (exp.t = "number" /\ exp.v = 0)
Label(color, text, duration) == [color |-> color, text |-> text, duration |-> duration]

\* (mutant: the ledger's epoch is not added)
formatChannelExpirationNoEpoch(exp, now1, now2) ==
    IF Falsy(exp) THEN Label("none", "", 0)
    ELSE LET unixExp == Millis(exp.v, 0)
         IN IF Leq(unixExp, now1) THEN Label("blue", "ready to close", 0)
            ELSE Label("yellow", "in ", Minus(unixExp, now2))

\* formatChannelExpiration(exp), with now1 and now2 what its first and its second
\* Date.now() return; duration is the argument of moment.duration(...).humanize()
formatChannelExpiration(exp, now1, now2) ==
    IF Falsy(exp) THEN Label("none", "", 0)
    ELSE LET unixExp == Millis(exp.v + RippleEpoch, 0)
         IN IF Leq(unixExp, now1) THEN Label("blue", "ready to close", 0)
            ELSE Label("yellow", "in ", Minus(unixExp, now2))

\* a string is the sequence of its characters
Digits == {"0", "5"}
DigitStrings == UNION {[1..n -> Digits] : n \in 1..MaxDigits}
\* Array.prototype.join(''): the parts one after the other
RECURSIVE Join(_)
Join(parts) == IF parts = <<>> THEN <<>> ELSE Head(parts) \o Join(Tail(parts))

\* (mutant: the groups of three are counted from the left)
commaFromLeft(a) ==
    Join([k \in 1..Len(a) |->
            IF (k - 1) % 3 = 2 /\ (k - 1) < Len(a) - 1
            THEN <<a[k], ",">>
            ELSE <<a[k]>>])

\* comma: a.split('').map((e, i) => ...).join(''), i being k - 1
comma(a) ==
    Join([k \in 1..Len(a) |->
            IF (Len(a) - (k - 1)) % 3 = 1 /\ (k - 1) < Len(a) - 1
            THEN <<a[k], ",">>
            ELSE <<a[k]>>])

FmtInit ==
    /\ fmtIn = [fn |-> "none", exp |-> [t |-> "undefined", v |-> 0],
                now1 |-> Millis(0, 0), now2 |-> Millis(0, 0)]
    /\ fmtOut = Label("none", "", 0)

\* a row is formatted: the clock does not go back between the two readings
FormatExpiration(exp, now1, now2) ==
    /\ Leq(now1, now2)
    /\ fmtIn' = [fn |-> "formatChannelExpiration", exp |-> exp, now1 |-> now1, now2 |-> now2]
    /\ fmtOut' = formatChannelExpiration(exp, now1, now2)
    /\ UNCHANGED <<sessVars, cfgVars>>

\* formatChannelToRow formats an amount (c.amount, c.balance, in drops)
FormatAmount(a) ==
    /\ fmtIn' = [fn |-> "comma", a |-> a]
    /\ fmtOut' = comma(a)
    /\ UNCHANGED <<sessVars, cfgVars>>

FormatNext ==
    \/ \E exp \in Expirations, now1 \in ClockReadings, now2 \in ClockReadings :
         FormatExpiration(exp, now1, now2)
    \/ \E a \in DigitStrings : FormatAmount(a)

\* =========================================================== specifications
\* the session
Init == SessionInit /\ CfgStart(0) /\ FmtInit
Next == SessionNext
Spec == Init /\ [][Next]_vars

\* one run of configure
InitConfigure == SessionStart(<<>>) /\ CfgInit /\ FmtInit
SpecConfigure == InitConfigure /\ [][ConfigureNext]_vars

\* the formatting helpers
InitFormat == SessionStart(<<>>) /\ CfgStart(0) /\ FmtInit
SpecFormat == InitFormat /\ [][FormatNext]_vars

\* ================================================================ claims
\* ----------------------------------------------------------------- session
RECURSIVE Count(_, _)
Count(s, x) == IF s = <<>> THEN 0
               ELSE (IF Head(s) = x THEN 1 ELSE 0) + Count(Tail(s), x)
\* submit calls of caller p that have not settled: waiting or in flight
Outstanding(p) == Count(queue, p) + (IF p \in inflight THEN 1 ELSE 0)
\* what caller p printed or called, by kind
Events(p, kind) == SelectSeq(out[p], LAMBDA e : e.t = kind)
\* the channels whose close caller p has submitted, in the order of the calls
Attempted(p) == [i \in 1..Len(Events(p, "submit")) |-> Events(p, "submit")[i].channel]
Warnings(p) == [i \in 1..Len(Events(p, "warning")) |->
                  [channel |-> Events(p, "warning")[i].channel,
                   message |-> Events(p, "warning")[i].message]]
\* caller p is in, or has left, the closing loop of cleanupChannels
InLoop(p) == pc[p] \in {"loop", "submitWait"}
LoopDone(p) == pc[p] = "done" /\ stage[p] = "submitter" /\ result[p] \notin GatewayErrors
\* caller p has gone through the subscription step of _submitter
PastSubscribe(p) == stage[p] = "submitter" /\ pc[p] \in {"subWait", "loop", "submitWait", "done"}

\* C1: for the account at most one submission is in flight at any time; a
\* caller of cleanupChannels has at most one submit call that has not settled
\* (the next channel's submission is issued only after the previous one has
\* settled: the calls issued are the settled ones plus at most one), and a
\* caller whose call is not in flight is kept waiting in the submitter's queue,
\* with its operation still running, while another caller's is in flight.
C1_OneSubmissionInFlight ==
    /\ Cardinality(inflight) <= 1
    /\ \A p \in Callers :
         /\ Outstanding(p) <= 1
         /\ Len(Attempted(p)) = idx[p] + Outstanding(p)
         /\ (Outstanding(p) = 1) <=> (pc[p] = "submitWait")
         /\ pc[p] = "submitWait" => result[p] = "running"

\* a second caller waits in the queue while the first caller's submission,
\* which is not its first, is in flight
C1_Witness ==
    \E p, q \in Callers :
        /\ p # q /\ inflight = {p} /\ queue = <<q>>
        /\ idx[p] >= 1 /\ pc[q] = "submitWait"

\* C2: within one session the 'subscribe' request is issued at most once over
\* any number of interleaved calls of _submitter, and exactly once as soon as
\* one call has gone through the subscription step: every later call finds
\* this.subscribed set and issues nothing.
C2_SubscribeOnce ==
    /\ subCount <= 1
    /\ subscribed <=> (subCount = 1)
    /\ (\E p \in Callers : PastSubscribe(p)) => subCount = 1

\* two calls of _submitter have gone through the subscription step, the second
\* while the first one's subscribe request was still awaited
C2_Witness ==
    /\ subCount = 1
    /\ \E p, q \in Callers : p # q /\ pc[p] = "subWait" /\ PastSubscribe(q) /\ pc[q] = "loop"

\* C3: whatever subset of the submissions fails, the channels attempted are a
\* prefix of the selected channels, each once and in selection order, while the
\* loop runs, and all of them once cleanupChannels is done; a caller that has
\* entered the loop ends fulfilled, never rejected.
C3_BatchIsolation ==
    \A p \in Callers :
        /\ Len(Attempted(p)) <= Len(channels[p])
        /\ Attempted(p) = SubSeq(channels[p], 1, Len(Attempted(p)))
        /\ (rejected[p] # <<>> \/ Attempted(p) # <<>>) /\ pc[p] = "done"
             => result[p] = "ok" /\ Attempted(p) = channels[p]
        /\ InLoop(p) => result[p] = "running"

\* a batch of two channels is done, the first submission having failed and the
\* second having been attempted and succeeded
C3_Witness ==
    \E p \in Callers :
        /\ pc[p] = "done" /\ Len(channels[p]) = MaxChannels
        /\ Len(rejected[p]) = 1 /\ rejected[p][1].channel = channels[p][1]
        /\ Len(Attempted(p)) = MaxChannels

C11_GatewayErrorsPropagate ==
    \A p \in Callers :
        /\ fault[p] # "none" =>
             /\ fault[p] \in GatewayErrors
             /\ pc[p] = "done" /\ result[p] = fault[p]
             /\ Attempted(p) = <<>> /\ Outstanding(p) = 0 /\ rejected[p] = <<>>
        /\ result[p] \in GatewayErrors => fault[p] = result[p]

\* cleanup has selected channels and its subscribe request was rejected
C11_Witness ==
    \E p \in Callers :
        /\ op[p] = "cleanup" /\ channels[p] # <<>>
        /\ fault[p] = GatewayError("subscribe") /\ pc[p] = "done"

\* the calls made on a caller's plugin, in order, without the settlements
PluginCalls(p) == SelectSeq(plugin[p], LAMBDA e : e.call \in {"connect", "sendMoney"})
UsesLedger(p) == op[p] \in {"info", "cleanup"}

\* C12: topup(amount) calls the plugin's connect and then sendMoney(amount),
\* in that order and each once; sendMoney is called only when connect has been
\* fulfilled, never when it was rejected; a fulfilled topup has made both
\* calls; topup creates no ledger client, issues no ledger connect and leaves
\* api and subscribed as they are.
C12_TopupOrder ==
    /\ \A p \in Callers : op[p] = "topup" =>
         /\ plugin[p] # <<>> /\ plugin[p][1] = PluginEvent("connect", "none")
         /\ \/ PluginCalls(p) = <<PluginEvent("connect", "none")>>
            \/ PluginCalls(p) = <<PluginEvent("connect", "none"),
                                  PluginEvent("sendMoney", amount[p])>>
         /\ \A k \in 1..Len(plugin[p]) : plugin[p][k].call = "sendMoney" =>
              /\ k > 1 /\ plugin[p][k - 1] = PluginEvent("connected", "none")
         /\ (\E k \in 1..Len(plugin[p]) : plugin[p][k].call = "connectRejected") =>
              /\ Len(PluginCalls(p)) = 1 /\ result[p] = "pluginError"
         /\ result[p] = "ok" => Len(PluginCalls(p)) = 2
         /\ stage[p] = "none" /\ fault[p] = "none"
    /\ \A p \in Callers : op[p] # "topup" => plugin[p] = <<>>
    /\ clients = (IF \E q \in Callers : UsesLedger(q) THEN 1 ELSE 0)
    /\ connects = clients
    /\ (api = "null") = (\A q \in Callers : ~UsesLedger(q))
    /\ subscribed => \E q \in Callers : op[q] = "cleanup" /\ stage[q] = "submitter"

\* one topup is fulfilled after both calls, another ended at a rejected connect
C12_Witness ==
    \E p, q \in Callers :
        /\ op[p] = "topup" /\ result[p] = "ok" /\ Len(PluginCalls(p)) = 2
        /\ op[q] = "topup" /\ result[q] = "pluginError" /\ Len(PluginCalls(q)) = 1
        /\ api = "null" /\ ~subscribed

\* C13: subscription gates submission: a close submission has been issued
\* only if a subscribe request of the session has been fulfilled before, and,
\* once no subscribe request is pending any more, the session is subscribed
\* (this.subscribed) only if one has been fulfilled.
\* (this.subscribed is set before the subscribe request is awaited and is not
\* reset when the request is rejected, so this does not hold.)
C13_SubscriptionGates ==
    /\ \A p \in Callers : Attempted(p) # <<>> => subDone
    /\ (subscribed /\ \A p \in Callers : pc[p] # "subWait") => subDone

\* C14: a new session has no client and has issued no connect (Init); over
\* any interleaving of report and cleanup operations of one session at most
\* one client is created and connect is issued at most once, on that client;
\* the client exists, and its connect has been issued, as soon as one
\* operation that needs the ledger has been invoked, and not before.
C14_ConnectOnce ==
    /\ clients <= 1 /\ connects <= 1
    /\ connects = clients
    /\ (clients = 1) = (api = "client")
    /\ (connects = 0) = (conn = "none")
    /\ (clients = 1) = (\E p \in Callers : UsesLedger(p))
    /\ (\A p \in Callers : pc[p] = "idle") => clients = 0 /\ connects = 0

\* two operations have gone through _rippleApi three times each, on one client
C14_Witness ==
    /\ clients = 1 /\ connects = 1
    /\ \A p \in Callers : op[p] = "cleanup" /\ stage[p] = "submitter" /\ pc[p] = "done"

\* C15: _rippleApi hands the client out only when its connect has been
\* fulfilled, and every request a caller awaits (account_channels,
\* getAccountInfo, getServerInfo, subscribe) was issued on a connected client.
\* (A caller that finds this.api set gets it at once, whether the connect
\* issued by an earlier caller is pending or has been rejected, so this does
\* not hold.)
C15_RequestsOnConnectedClient ==
    \A p \in Callers :
        /\ pc[p] \in {"list", "acct", "sub"} => conn = "ok"
        /\ pc[p] \in {"listWait", "acctWait", "srvWait", "subWait"} => reqOnOk[p]

\* ch is a selection from the list all, in the order of the list
Selection(ch, all) == \E I \in SUBSET (1..Len(all)) : ch = Pick(all, I, 1)
\* the submit calls in the output o are closes of the first channels of ch
ClosesOf(o, ch) ==
    LET sub == SelectSeq(o, LAMBDA e : e.t = "submit")
    IN  /\ Len(sub) <= Len(ch)
        /\ \A i \in 1..Len(sub) : sub[i].channel = ch[i] /\ sub[i].close = TRUE
Fetches(p) == stage[p] # "print" /\ stage'[p] = "print"

\* C16: channels are not cached. An invocation of report or cleanup has no
\* list before its own account_channels request is answered; its list is what
\* the ledger holds when that request is answered and does not change
\* afterwards; the channels cleanup selects are members of that list; every
\* submission is a close (close = true) of a selected channel, one per
\* selected channel in order, so that a finished loop has submitted exactly the
\* selected channels and none other.
C16_NoChannelCache ==
    [][\A p \in Callers :
         /\ Fetches(p) => pc[p] = "listWait" /\ allChannels'[p] = ledger
         /\ ~Fetches(p) => allChannels'[p] = allChannels[p]
         /\ stage'[p] \in {"none", "list"} => allChannels'[p] = <<>> /\ channels'[p] = <<>>
         /\ Selection(channels'[p], allChannels'[p])
         /\ ClosesOf(out'[p], channels'[p])
         /\ op'[p] = "info" => out'[p] = <<>>
         /\ (pc'[p] = "done" /\ result'[p] = "ok" /\ stage'[p] = "submitter")
              => Len(SelectSeq(out'[p], LAMBDA e : e.t = "submit")) = Len(channels'[p])
      ]_vars

\* a cleanup closed the one channel it selected of two, and a later cleanup of
\* the session fetched the shorter list and closed a channel of it
C16_Witness ==
    \E p, q \in Callers :
        /\ LoopDone(p) /\ Attempted(p) # <<>>
        /\ stage[q] = "submitter" /\ Attempted(q) # <<>>
        /\ Len(allChannels[q]) < Len(allChannels[p])
        /\ Len(channels[p]) < Len(allChannels[p])

\* C17: a cleanup whose account_channels request was answered with an empty
\* list goes through the report only: it is never at the prompt, never enters
\* _submitter (so it issues no subscribe request and does not touch
\* this.subscribed), selects nothing, submits nothing, and is fulfilled once
\* the report is done; while no call has entered _submitter the session is
\* not subscribed and no subscribe request has been issued.
C17_EmptyListEndsCleanup ==
    /\ \A p \in Callers :
         (op[p] = "cleanup" /\ stage[p] \in {"print", "submitter"} /\ allChannels[p] = <<>>) =>
            /\ stage[p] = "print"
            /\ pc[p] \in {"acct", "acctWait", "srvWait", "done"}
            /\ channels[p] = <<>> /\ out[p] = <<>> /\ idx[p] = 0
            /\ Outstanding(p) = 0 /\ rejected[p] = <<>>
            /\ (pc[p] = "done" /\ fault[p] = "none") => result[p] = "ok"
    /\ (\A q \in Callers : stage[q] # "submitter") => ~subscribed /\ subCount = 0

\* a cleanup found no channel and is fulfilled after its report, in a session
\* that another cleanup has subscribed before
C17_Witness ==
    \E p, q \in Callers :
        /\ op[p] = "cleanup" /\ stage[p] = "print" /\ allChannels[p] = <<>>
        /\ pc[p] = "done" /\ result[p] = "ok"
        /\ LoopDone(q) /\ Attempted(q) # <<>> /\ subscribed /\ subCount = 1

\* --------------------------------------------------------------- configure
\* the run has started and takes the faucet flow: testnet and no secret given
FaucetRun == cfgPc # "idle" /\ testnet /\ askedSecret = ""
OtherRun == cfgPc # "idle" /\ ~(testnet /\ askedSecret = "")
TooLow(min) == NewError("account balance is too low (must be at least " \o ToString(min) \o ")")

\* C5: once validateAddress has the account info and the server info, it has
\* thrown the insufficient-balance error carrying minBalance exactly when
\* currentBalance < minBalance, minBalance = baseReserve + incrementReserve *
\* ownerCount + incrementReserve + outgoingChannelDefaultAmount + 1, and it is
\* fulfilled when currentBalance >= minBalance, equality included.
C5_ReserveCheck ==
    vIn.srvKnown =>
        LET min == vIn.reserveBaseXRP + vIn.reserveIncrementXRP * vIn.ownerCount
                     + vIn.reserveIncrementXRP + outgoingDefault + 1
        IN /\ vPc = "done"
           /\ vIn.xrpBalance < min => vOut = [kind |-> "error", err |-> TooLow(min)]
           /\ vIn.xrpBalance >= min => vOut = [kind |-> "ok", err |-> NoError]

\* an account that owns objects and holds exactly minBalance is accepted
C5_Witness ==
    /\ vIn.srvKnown /\ vIn.ownerCount > 0
    /\ vIn.xrpBalance = vIn.reserveBaseXRP + vIn.reserveIncrementXRP * vIn.ownerCount
                          + vIn.reserveIncrementXRP + outgoingDefault + 1
    /\ vOut.kind = "ok"

\* C6: when the account lookup fails, validateAddress throws without asking
\* for the server info and without a balance verdict: for actNotFound a new
\* error whose message names the address and the server (and is not the raw
\* 'actNotFound'), for any other error that very error.
C6_LookupErrors ==
    vIn.lookupErr # NoError =>
        /\ vPc = "done" /\ vOut.kind = "error"
        /\ ~vIn.srvAsked /\ ~vIn.srvKnown /\ ~vIn.acctKnown
        /\ IF vIn.lookupErr.message = "actNotFound"
           THEN /\ vOut.err = NewError("Address \"" \o vCalls[1].address
                                         \o "\" does not exist on " \o vCalls[1].server)
                /\ vOut.err.message # "actNotFound"
                /\ vOut.err # vIn.lookupErr
           ELSE vOut.err = vIn.lookupErr

\* the ledger has reported that the account does not exist
C6_Witness == vIn.lookupErr.message = "actNotFound" /\ vPc = "done"

\* C7: in a run that does not take the faucet flow, a configuration is returned
\* only after validateAddress was fulfilled for the configured server and
\* address; when validateAddress throws, configure ends in process.exit and
\* returns no configuration.
C7_ValidationGates ==
    OtherRun =>
        /\ (config # {}) <=> (cfgPc = "returned")
        /\ \A c \in config :
             /\ vOut.kind = "ok"
             /\ vCalls = <<[server |-> c.options.xrpServer, address |-> c.options.address]>>
        /\ vOut.kind = "error" => config = {} /\ cfgPc = "exited"

\* validation has failed for an insufficient balance and configure has exited
C7_Witness ==
    /\ OtherRun /\ vIn.srvKnown /\ vOut.kind = "error"
    /\ cfgPc = "exited" /\ config = {}

\* C8: a run that takes the faucet flow never calls validateAddress, and its
\* steps are the faucet request, the delay, the derivation and the return;
\* every other run, testnet with a secret included, calls it exactly once.
C8_FaucetSkipsValidation ==
    /\ FaucetRun =>
         /\ vCalls = <<>> /\ vPc = "none" /\ vOut.kind = "none"
         /\ steps = SubSeq(<<"faucet", "delay", "derive", "return">>, 1, Len(steps))
         /\ cfgPc = "returned" => steps = <<"faucet", "delay", "derive", "return">>
    /\ OtherRun => Len(vCalls) = 1

\* a faucet run has returned its configuration
C8_Witness == FaucetRun /\ cfgPc = "returned" /\ config # {} /\ vCalls = <<>>

\* deriveSecret(parentHost, channelName, seed) of the specification
deriveSecret(parent, name, seed) ==
    toHex(hmac(hmac("parent_btp_uri", parent \o name), seed))

\* C9: in every returned configuration, options.server is 'btp+wss://' + name +
\* ':' + deriveSecret(parent, name, options.secret) + '@' + parent for the
\* secret stored in the same options, on the faucet path too.
C9_ServerFromStoredSecret ==
    \A c \in config :
        LET name == IF res.name = Undefined THEN "" ELSE res.name
        IN c.options.server =
             "btp+wss://" \o name \o ":"
               \o deriveSecret(res.parent, name, c.options.secret) \o "@" \o res.parent

\* a faucet run has returned a configuration that stores the faucet's secret
C9_Witness ==
    /\ FaucetRun
    /\ \E c \in config, a \in FaucetAccounts :
         c.options.secret = a.secret /\ c.options.address = a.address

\* ---------------------------------------------------------------- formatting
\* C10: a missing, null or zero expiration gives the empty label; otherwise,
\* with unixExp = (expiration + 0x386D4380) * 1000 ms, unixExp <= now gives
\* "ready to close" and unixExp > now gives the duration label, whose
\* duration is unixExp minus the clock as read for the label: unixExp - now,
\* a positive duration, when the clock has not moved since the comparison.
C10_ExpirationLabel ==
    fmtIn.fn = "formatChannelExpiration" =>
        LET exp == fmtIn.exp
            unixExp == Millis(exp.v + 946684800, 0)
        IN /\ fmtOut.text \in {"", "ready to close", "in "}
           /\ IF exp.t # "number" \/ exp.v = 0
              THEN fmtOut = Label("none", "", 0)
              ELSE IF Leq(unixExp, fmtIn.now1)
                   THEN fmtOut = Label("blue", "ready to close", 0)
                   ELSE /\ fmtOut = Label("yellow", "in ", Minus(unixExp, fmtIn.now2))
                        /\ fmtIn.now2 = fmtIn.now1 =>
                             fmtOut.duration = Minus(unixExp, fmtIn.now1) /\ fmtOut.duration > 0

\* an expiration that is the very millisecond of the clock is ready to close
C10_Witness ==
    /\ fmtIn.fn = "formatChannelExpiration" /\ fmtIn.exp.t = "number" /\ fmtIn.exp.v > 0
    /\ fmtIn.now1 = Millis(fmtIn.exp.v + RippleEpoch, 0)
    /\ fmtOut.text = "ready to close"

\* the digit positions (0-based) of a string of n digits that get a separator
SeparatedAfter(n) == {i \in 0..(n - 1) : (n - i) % 3 = 1 /\ i < n - 1}

\* C18: for a non-empty string of n decimal digits the result of comma holds
\* the same digits in the same order; digit i (0-based) is followed by ','
\* exactly when (n - i) mod 3 = 1 and i < n - 1, and there is no other ',':
\* counted from the right, every fourth character and no other is a ','; the
\* result neither starts nor ends with ','; a string of at most three digits
\* is unchanged; removing the ',' gives the input back.
C18_CommaGroups ==
    fmtIn.fn = "comma" =>
        LET a == fmtIn.a
            n == Len(a)
            r == fmtOut
            m == Len(r)
            \* where digit i of a stands in r (1-based)
            at(i) == i + 1 + Cardinality({j \in SeparatedAfter(n) : j < i})
        IN /\ n >= 1
           /\ SelectSeq(r, LAMBDA e : e # ",") = a
           /\ m = n + Cardinality(SeparatedAfter(n))
           /\ m = n + ((n - 1) \div 3)
           /\ \A i \in 0..(n - 1) :
                /\ r[at(i)] = a[i + 1]
                /\ (i \in SeparatedAfter(n)) = (at(i) < m /\ r[at(i) + 1] = ",")
           /\ \A j \in 1..m : (r[m - j + 1] = ",") = (j % 4 = 0)
           /\ r[1] # "," /\ r[m] # ","
           /\ n <= 3 => r = a

\* seven digits are formatted with two separators, after the first and the
\* fourth digit
C18_Witness ==
    /\ fmtIn.fn = "comma" /\ Len(fmtIn.a) = 7
    /\ Len(fmtOut) = 9 /\ fmtOut[2] = "," /\ fmtOut[6] = ","

====
